---- MODULE Spec2Model ----
(***************************************************************************)
(* A model of the DQN agent (src/models/dqn/dqn.py) and of the DDPG        *)
(* training loop (src/models/ddpg/engine.py).                              *)
(*                                                                         *)
(* Floating point numbers are modelled as exact rationals <<num, den>> in  *)
(* lowest terms with den > 0, so that products and blends such as          *)
(* tau * live + (1 - tau) * target are computed, not assumed.              *)
(***************************************************************************)
EXTENDS Integers, Sequences, FiniteSets, TLC

(***************************************************************************)
(* Bounds of the model.                                                    *)
(***************************************************************************)
\* largest mem_size (deque maxlen) a configuration may choose
MaxMemSize == 2
\* largest memory_batch a configuration may choose
MaxBatch == 2
\* number of DQN.remember calls explored
MaxAdds == 4
\* number of DQN.act calls explored
MaxActs == 3
\* number of DQN.target_train calls explored
MaxSync == 2
\* largest num_steps_train a configuration may choose
MaxTimesteps == 4
\* largest start_timesteps a configuration may choose
MaxStart == 2
\* largest env._max_episode_steps a configuration may choose
MaxEpisodeSteps == 2

(***************************************************************************)
(* Rational arithmetic.                                                    *)
(***************************************************************************)
Abs(n) == IF n < 0 THEN -n ELSE n

Min(a, b) == IF a < b THEN a ELSE b

RECURSIVE GCD(_, _)
GCD(a, b) == IF b = 0 THEN a ELSE GCD(b, a % b)

Norm(n, d) ==
    IF n = 0 THEN <<0, 1>>
    ELSE LET g == GCD(Abs(n), d) IN <<n \div g, d \div g>>

R(n) == <<n, 1>>

RAdd(a, b) == Norm(a[1] * b[2] + b[1] * a[2], a[2] * b[2])

RSub(a, b) == Norm(a[1] * b[2] - b[1] * a[2], a[2] * b[2])

RMul(a, b) == Norm(a[1] * b[1], a[2] * b[2])

RLess(a, b) == a[1] * b[2] < b[1] * a[2]

RLeq(a, b) == a[1] * b[2] <= b[1] * a[2]

\* Python's max(a, b): b only if it is strictly greater
RMax(a, b) == IF RLess(a, b) THEN b ELSE a

RECURSIVE RPow(_, _)
RPow(a, k) == IF k = 0 THEN R(1) ELSE RMul(a, RPow(a, k - 1))

(***************************************************************************)
(* The environment's spaces and the networks (class MLP).                  *)
(***************************************************************************)
\* env.action_space.n
NumActions == 2

Actions == 0 .. (NumActions - 1)

\* observations, a one-dimensional observation space
States == {1, 2}

ParamNames ==
    {"fc1.weight", "fc1.bias", "fc2.weight", "fc2.bias",
     "fc3.weight", "fc3.bias", "fc4.weight", "fc4.bias"}

\* A network with hidden_sizes = (1, 1, 1): fc1..fc3 hold one weight and one
\* bias each, fc4 one weight and one bias per action.
Net(w, b, w4, b4) ==
    [n \in ParamNames |->
        CASE n \in {"fc1.weight", "fc2.weight", "fc3.weight"} -> [i \in {0} |-> w]
          [] n \in {"fc1.bias", "fc2.bias", "fc3.bias"} -> [i \in {0} |-> b]
          [] n = "fc4.weight" -> w4
          [] n = "fc4.bias" -> b4]

\* The parameter values a random initialisation or an optimizer step may
\* produce.
ParamChoices ==
    {Net(R(1), R(0), [a \in Actions |-> R(a + 1)], [a \in Actions |-> R(0)]),
     Net(R(2), R(1), [a \in Actions |-> R(1 - a)], [a \in Actions |-> R(a)]),
     Net(R(1), R(-1), [a \in Actions |-> R(-2)], [a \in Actions |-> R(3 * a)])}

ReLU(x) == IF RLess(x, R(0)) THEN R(0) ELSE x

Linear(p, layer, x) ==
    RAdd(RMul(p[layer \o ".weight"][0], x), p[layer \o ".bias"][0])

forward(p, x) ==
    LET h1 == ReLU(Linear(p, "fc1", R(x)))
        h2 == ReLU(Linear(p, "fc2", h1))
        h3 == ReLU(Linear(p, "fc3", h2))
    IN  [a \in Actions |-> RAdd(RMul(p["fc4.weight"][a], h3), p["fc4.bias"][a])]

\* max(tensor): the largest entry
MaxOf(q) == CHOOSE m \in {q[a] : a \in Actions} : \A a \in Actions : RLeq(q[a], m)

\* np.argmax: the first index of the largest entry
ArgMax(q) ==
    CHOOSE a \in Actions :
        /\ q[a] = MaxOf(q)
        /\ \A b \in Actions : q[b] = MaxOf(q) => a <= b

(***************************************************************************)
(* State.                                                                  *)
(***************************************************************************)
VARIABLES
    config,         \* the constructor's arguments (mem_size, memory_batch, gamma, ...)
    memory,         \* self.memory, a deque(maxlen = mem_size)
    epsilon,        \* self.epsilon
    model,          \* self.model's parameters
    target_model,   \* self.target_model's parameters
    added,          \* history: the transitions passed to remember, in order
    nacts,          \* history: number of act calls
    nsync,          \* history: number of target_train calls
    last_call,      \* the method that returned last
    act_result,     \* act's return value
    samples,        \* replay's local: the batch drawn
    targets,        \* replay's local: the regression target of each sample
    replay_outcome  \* how replay returned

dqn_vars ==
    <<config, memory, epsilon, model, target_model, added, nacts, nsync,
      last_call, act_result, samples, targets, replay_outcome>>

\* Engine.train's configuration, locals and collaborators
VARIABLES
    engine_config,      \* self.config and the environment's _max_episode_steps
    pc,                 \* the place in the loop body
    t,                  \* the loop counter
    state,              \* the current observation
    done,               \* what env.step reported last
    episode_reward,
    episode_timesteps,
    episode_num,
    env_elapsed,        \* the environment's own count of steps since reset
    replay_buffer,      \* the ReplayBuffer: storage, write_cursor, size
    train_size,         \* history: the buffer's size at the last policy.train
    logged              \* the buffer length the last evaluation logged

engine_vars ==
    <<engine_config, pc, t, state, done, episode_reward, episode_timesteps,
      episode_num, env_elapsed, replay_buffer, train_size, logged>>

vars == <<dqn_vars, engine_vars>>

(***************************************************************************)
(* DQN.__init__                                                            *)
(***************************************************************************)
DQN_init(cfg, live0, target0) ==
    /\ config = cfg
    /\ memory = <<>>
    /\ epsilon = cfg.epsilon
    /\ model = live0
    /\ target_model = target0
    /\ added = <<>>
    /\ nacts = 0
    /\ nsync = 0
    /\ last_call = "__init__"
    /\ act_result = -1
    /\ samples = <<>>
    /\ targets = <<>>
    /\ replay_outcome = "none"

\* the configuration of __main__, with sizes within the bounds
DefaultConfig ==
    [mem_size |-> MaxMemSize, memory_batch |-> 1, gamma |-> <<1, 2>>,
     tau |-> <<1, 2>>, epsilon |-> R(1), epsilon_min |-> <<1, 4>>,
     epsilon_decay |-> <<1, 2>>]

(***************************************************************************)
(* DQN.act                                                                 *)
(***************************************************************************)
\* the mutant of decayed_epsilon: the decay without the floor
decayed_epsilon_without_floor(eps, eps_min, decay) == RMul(eps, decay)

\* lines 102-103
decayed_epsilon(eps, eps_min, decay) == RMax(eps_min, RMul(eps, decay))

Act ==
    /\ nacts < MaxActs
    /\ \E cur_state \in States, explore \in BOOLEAN, random_action \in Actions :
          LET eps == decayed_epsilon(epsilon, config.epsilon_min, config.epsilon_decay)
          IN  \* np.random.random() is in [0, 1)
              /\ explore => RLess(R(0), eps)
              /\ ~explore => RLess(eps, R(1))
              /\ epsilon' = eps
              /\ act_result' = IF explore THEN random_action
                               ELSE ArgMax(forward(model, cur_state))
    /\ nacts' = nacts + 1
    /\ last_call' = "act"
    /\ UNCHANGED <<config, memory, model, target_model, added, nsync,
                   samples, targets, replay_outcome>>
    /\ UNCHANGED engine_vars

(***************************************************************************)
(* DQN.remember: self.memory.append([...]) on a deque(maxlen = mem_size)   *)
(***************************************************************************)
\* A stored transition is a fresh list object; "id" is its identity, the
\* number of remember calls made before it was created.
Transition(id, s, a, r, s2, d) ==
    [id |-> id, state |-> s, action |-> a, reward |-> r, new_state |-> s2,
     done |-> d]

\* two transitions from the same state, one of them terminal
FewTransitions(id) ==
    {Transition(id, 1, 0, -1, s2, s2 = 2) : s2 \in States}

\* transitions that differ in every field
SomeTransitions(id) ==
    {Transition(id, 1, 0, -1, 2, FALSE), Transition(id, 2, 1, 1, 1, FALSE),
     Transition(id, 1, 1, 1, 2, TRUE), Transition(id, 2, 0, -1, 2, FALSE)}

\* the mutants of deque_append: a deque that never evicts, and one that
\* evicts the newest entry instead of the oldest
deque_append_unbounded(d, item, maxlen) == Append(d, item)

deque_append_lifo(d, item, maxlen) ==
    IF maxlen = 0 THEN d
    ELSE IF Len(d) = maxlen THEN Append(SubSeq(d, 1, Len(d) - 1), item)
    ELSE Append(d, item)

\* deque.append with maxlen: a full deque discards its leftmost item
deque_append(d, item, maxlen) ==
    IF maxlen = 0 THEN d
    ELSE IF Len(d) = maxlen THEN Append(Tail(d), item)
    ELSE Append(d, item)

Remember(inputs) ==
    /\ Len(added) < MaxAdds
    /\ \E tr \in inputs :
          /\ memory' = deque_append(memory, tr, config.mem_size)
          /\ added' = Append(added, tr)
    /\ last_call' = "remember"
    /\ UNCHANGED <<config, epsilon, model, target_model, nacts, nsync,
                   act_result, samples, targets, replay_outcome>>
    /\ UNCHANGED engine_vars

(***************************************************************************)
(* DQN.replay                                                              *)
(***************************************************************************)
\* the mutant of random_sample: k independent draws, with replacement
random_choices(pool, k) ==
    {[i \in 1 .. k |-> pool[f[i]]] : f \in [1 .. k -> 1 .. Len(pool)]}

\* random.sample(population, k): k times, pick a random position of the pool,
\* take its item and move the pool's last item into its place.
RECURSIVE random_sample(_, _)
random_sample(pool, k) ==
    IF k = 0 THEN {<<>>}
    ELSE UNION {
            LET n == Len(pool)
                rest == SubSeq([pool EXCEPT ![j] = pool[n]], 1, n - 1)
            IN  {<<pool[j]>> \o s : s \in random_sample(rest, k - 1)}
            : j \in 1 .. Len(pool)}

\* the target of one sample, lines 125-135
bellman_target(tm, sample, gamma) ==
    LET state_t == sample.state
        \* line 128 builds new_state from state, not from the sample's new_state
        new_state == state_t
        target == forward(tm, state_t)
    IN  IF sample.done
        THEN [target EXCEPT ![sample.action] = R(sample.reward)]
        ELSE LET Q_future == MaxOf(forward(tm, new_state))
             IN  [target EXCEPT
                    ![sample.action] = RAdd(R(sample.reward), RMul(Q_future, gamma))]

\* the mutant of too_few: only an empty memory is skipped
too_few_when_empty(mem, batch) == Len(mem) = 0 /\ batch > 0

\* line 120: the guard that skips training
too_few(mem, batch) == Len(mem) < batch

Replay ==
    /\ last_call' = "replay"
    /\ IF too_few(memory, config.memory_batch)
       THEN /\ replay_outcome' = "skipped"
            /\ samples' = <<>>
            /\ targets' = <<>>
            /\ UNCHANGED model
       ELSE IF config.memory_batch > Len(memory)
       THEN \* random.sample raises "Sample larger than population"
            /\ replay_outcome' = "ValueError"
            /\ samples' = <<>>
            /\ targets' = <<>>
            /\ UNCHANGED model
       ELSE \E batch \in random_sample(memory, config.memory_batch) :
              /\ replay_outcome' = "trained"
              /\ samples' = batch
              /\ targets' = [i \in 1 .. Len(batch) |->
                                bellman_target(target_model, batch[i], config.gamma)]
              \* optimizer.step() once per sample: the live parameters move
              /\ IF batch = <<>> THEN UNCHANGED model
                 ELSE model' \in ParamChoices
    /\ UNCHANGED <<config, memory, epsilon, target_model, added, nacts, nsync,
                   act_result>>
    /\ UNCHANGED engine_vars

(***************************************************************************)
(* DQN.target_train                                                        *)
(***************************************************************************)
\* model.p.data * tau + target_model.p.data * (1 - tau), elementwise
Blend(live_p, target_p, tau) ==
    [i \in DOMAIN target_p |->
        RAdd(RMul(live_p[i], tau), RMul(target_p[i], RSub(R(1), tau)))]

\* the mutant of target_train_params: the last layer's bias is left out
target_train_without_fc4_bias(live, target, tau) ==
    [target EXCEPT
        !["fc1.weight"] = Blend(live["fc1.weight"], target["fc1.weight"], tau),
        !["fc1.bias"] = Blend(live["fc1.bias"], target["fc1.bias"], tau),
        !["fc2.weight"] = Blend(live["fc2.weight"], target["fc2.weight"], tau),
        !["fc2.bias"] = Blend(live["fc2.bias"], target["fc2.bias"], tau),
        !["fc3.weight"] = Blend(live["fc3.weight"], target["fc3.weight"], tau),
        !["fc3.bias"] = Blend(live["fc3.bias"], target["fc3.bias"], tau),
        !["fc4.weight"] = Blend(live["fc4.weight"], target["fc4.weight"], tau)]

\* lines 147-154, one copy_ per tensor
target_train_params(live, target, tau) ==
    [target EXCEPT
        !["fc1.weight"] = Blend(live["fc1.weight"], target["fc1.weight"], tau),
        !["fc1.bias"] = Blend(live["fc1.bias"], target["fc1.bias"], tau),
        !["fc2.weight"] = Blend(live["fc2.weight"], target["fc2.weight"], tau),
        !["fc2.bias"] = Blend(live["fc2.bias"], target["fc2.bias"], tau),
        !["fc3.weight"] = Blend(live["fc3.weight"], target["fc3.weight"], tau),
        !["fc3.bias"] = Blend(live["fc3.bias"], target["fc3.bias"], tau),
        !["fc4.weight"] = Blend(live["fc4.weight"], target["fc4.weight"], tau),
        !["fc4.bias"] = Blend(live["fc4.bias"], target["fc4.bias"], tau)]

TargetTrain ==
    /\ nsync < MaxSync
    /\ target_model' = target_train_params(model, target_model, config.tau)
    /\ nsync' = nsync + 1
    /\ last_call' = "target_train"
    /\ UNCHANGED <<config, memory, epsilon, model, added, nacts, act_result,
                   samples, targets, replay_outcome>>
    /\ UNCHANGED engine_vars

(***************************************************************************)
(* The replay buffer of the DDPG loop (models/ddpg/utils.py, described in  *)
(* the specification's sections 3 and 4.1): a circular store.              *)
(***************************************************************************)
NoTransition ==
    [state |-> -1, action |-> "none", next_state |-> -1, reward |-> 0, done |-> 0]

ReplayBuffer_new(capacity) ==
    [capacity |-> capacity,
     storage |-> [i \in 0 .. (capacity - 1) |-> NoTransition],
     write_cursor |-> 0,
     size |-> 0]

\* add: overwrite the slot at write_cursor, advance it modulo capacity, grow
\* size until it saturates
ReplayBuffer_add(buf, tr) ==
    [buf EXCEPT
        !.storage = [@ EXCEPT ![buf.write_cursor] = tr],
        !.write_cursor = (buf.write_cursor + 1) % buf.capacity,
        !.size = Min(buf.size + 1, buf.capacity)]

\* the slot written last
ReplayBuffer_newest(buf) ==
    buf.storage[(buf.write_cursor + buf.capacity - 1) % buf.capacity]

(***************************************************************************)
(* Engine.train                                                            *)
(***************************************************************************)
EngineRewards == {0, 1}

\* lines 97-105: the state before the loop
Engine_start(cfg) ==
    /\ engine_config = cfg
    /\ pc = "step"
    /\ t = 0
    /\ state = 0
    /\ done = FALSE
    /\ episode_reward = 0
    /\ episode_timesteps = 0
    /\ episode_num = 0
    /\ env_elapsed = 0
    /\ replay_buffer = ReplayBuffer_new(cfg.capacity)
    /\ train_size = -1
    /\ logged = -1

DefaultEngineConfig ==
    [num_steps_train |-> MaxTimesteps, start_timesteps |-> 1, batch_size |-> 1,
     eval_freq |-> 2, max_episode_steps |-> MaxEpisodeSteps,
     capacity |-> MaxMemSize]

\* the mutant of done_flag: the environment's done is stored as it is
done_flag_untruncated(env_done, steps, max_episode_steps) ==
    IF env_done THEN 1 ELSE 0

\* line 123: float(done) if episode_timesteps < env._max_episode_steps else 0
done_flag(env_done, steps, max_episode_steps) ==
    IF steps < max_episode_steps THEN (IF env_done THEN 1 ELSE 0) ELSE 0

\* lines 109-129: act, step the environment, store the transition.  The
\* environment counts its steps since reset and reports done when the episode
\* terminates or its step count reaches _max_episode_steps; its observation is
\* that count.
Collect ==
    /\ pc = "step"
    /\ t < engine_config.num_steps_train
    /\ \E reward \in EngineRewards, terminal \in BOOLEAN :
          LET steps == episode_timesteps + 1
              action == IF t < engine_config.start_timesteps
                        THEN "random" ELSE "policy"
              next_state == env_elapsed + 1
              env_done == terminal \/ env_elapsed + 1 >= engine_config.max_episode_steps
              done_bool == done_flag(env_done, steps, engine_config.max_episode_steps)
          IN  /\ episode_timesteps' = steps
              /\ env_elapsed' = env_elapsed + 1
              /\ done' = env_done
              /\ replay_buffer' =
                    ReplayBuffer_add(replay_buffer,
                        [state |-> state, action |-> action,
                         next_state |-> next_state, reward |-> reward,
                         done |-> done_bool])
              /\ state' = next_state
              /\ episode_reward' = episode_reward + reward
    /\ pc' = "train"
    /\ UNCHANGED <<engine_config, t, episode_num, train_size, logged>>
    /\ UNCHANGED dqn_vars

\* the mutant of should_train: training starts one step early
should_train_early(step, start_timesteps) == step >= start_timesteps - 1

\* line 132
should_train(step, start_timesteps) == step >= start_timesteps

\* lines 131-133: policy.train samples batch_size transitions of the buffer
Train ==
    /\ pc = "train"
    /\ IF should_train(t, engine_config.start_timesteps)
       THEN train_size' = replay_buffer.size
       ELSE UNCHANGED train_size
    /\ pc' = "episode"
    /\ UNCHANGED <<engine_config, t, state, done, episode_reward,
                   episode_timesteps, episode_num, env_elapsed, replay_buffer,
                   logged>>
    /\ UNCHANGED dqn_vars

\* lines 135-143
EpisodeEnd ==
    /\ pc = "episode"
    /\ IF done
       THEN /\ state' = 0
            /\ env_elapsed' = 0
            /\ done' = FALSE
            /\ episode_reward' = 0
            /\ episode_timesteps' = 0
            /\ episode_num' = episode_num + 1
       ELSE UNCHANGED <<state, env_elapsed, done, episode_reward,
                        episode_timesteps, episode_num>>
    /\ pc' = "evaluate"
    /\ UNCHANGED <<engine_config, t, replay_buffer, train_size, logged>>
    /\ UNCHANGED dqn_vars

\* lines 145-152, and the loop's next t
Evaluate ==
    /\ pc = "evaluate"
    /\ IF (t + 1) % engine_config.eval_freq = 0
       THEN logged' = replay_buffer.size
       ELSE UNCHANGED logged
    /\ t' = t + 1
    /\ pc' = IF t + 1 < engine_config.num_steps_train THEN "step" ELSE "finished"
    /\ UNCHANGED <<engine_config, state, done, episode_reward, episode_timesteps,
                   episode_num, env_elapsed, replay_buffer, train_size>>
    /\ UNCHANGED dqn_vars

(***************************************************************************)
(* Specifications: the agent after construction, driven through its        *)
(* methods.                                                                *)
(***************************************************************************)
\* the replay memory: every mem_size and memory_batch
InitMemory ==
    \E ms \in 1 .. MaxMemSize, mb \in 0 .. MaxBatch :
        \E live0 \in ParamChoices :
            /\ DQN_init([DefaultConfig EXCEPT !.mem_size = ms, !.memory_batch = mb],
                        live0, live0)
            /\ Engine_start(DefaultEngineConfig)

NextMemory == Remember(FewTransitions(Len(added))) \/ Replay

SpecMemory == InitMemory /\ [][NextMemory]_vars

Taus == {R(0), <<1, 2>>, R(1)}

\* the two networks: every tau, every pair of initialisations
InitTarget ==
    \E tt \in Taus, live0 \in ParamChoices, target0 \in ParamChoices :
        /\ DQN_init([DefaultConfig EXCEPT !.tau = tt, !.mem_size = 1],
                    live0, target0)
        /\ Engine_start(DefaultEngineConfig)

NextTarget == Remember(FewTransitions(Len(added))) \/ Replay \/ TargetTrain

SpecTarget == InitTarget /\ [][NextTarget]_vars

Gammas == {R(0), <<1, 2>>, <<17, 20>>, R(1)}

\* the regression targets: every gamma, every transition
InitBellman ==
    \E g \in Gammas, live0 \in ParamChoices, target0 \in ParamChoices :
        /\ DQN_init([DefaultConfig EXCEPT !.gamma = g, !.mem_size = 1],
                    live0, target0)
        /\ Engine_start(DefaultEngineConfig)

NextBellman == Remember(SomeTransitions(Len(added))) \/ Replay

SpecBellman == InitBellman /\ [][NextBellman]_vars

Epsilons == {<<1, 4>>, <<1, 2>>, R(1)}

EpsilonMins == {<<1, 100>>, <<1, 4>>, <<1, 2>>}

EpsilonDecays == {<<1, 2>>, <<9, 10>>, R(1), <<3, 2>>}

\* exploration: every epsilon, epsilon_min and epsilon_decay
InitAct ==
    \E e \in Epsilons, em \in EpsilonMins, ed \in EpsilonDecays :
        \E live0 \in ParamChoices :
            /\ DQN_init([DefaultConfig EXCEPT
                           !.epsilon = e, !.epsilon_min = em, !.epsilon_decay = ed],
                        live0, live0)
            /\ Engine_start(DefaultEngineConfig)

NextAct == Act

SpecAct == InitAct /\ [][NextAct]_vars

EvalFreqs == {2, 3}

\* the DDPG loop: every num_steps_train, start_timesteps, batch_size, episode
\* limit and buffer capacity
InitEngine ==
    \E n \in 1 .. MaxTimesteps, st \in 0 .. MaxStart, bs \in 1 .. MaxBatch,
       ef \in EvalFreqs, me \in 1 .. MaxEpisodeSteps, cap \in 1 .. MaxMemSize :
        /\ Engine_start([num_steps_train |-> n, start_timesteps |-> st,
                         batch_size |-> bs, eval_freq |-> ef,
                         max_episode_steps |-> me, capacity |-> cap])
        /\ \E live0 \in {Net(R(1), R(0), [a \in Actions |-> R(a)],
                              [a \in Actions |-> R(0)])} :
              DQN_init(DefaultConfig, live0, live0)

NextEngine == Collect \/ Train \/ EpisodeEnd \/ Evaluate

SpecEngine == InitEngine /\ [][NextEngine]_vars

(***************************************************************************)
(* Properties of the DQN agent.                                            *)
(***************************************************************************)
Range(f) == {f[i] : i \in DOMAIN f}

\* C1: after n remember calls the memory holds min(n, mem_size) transitions,
\* so it never holds more than mem_size.
C1_LengthIsMinOfCallsAndCapacity ==
    /\ Len(memory) = Min(Len(added), config.mem_size)
    /\ Len(memory) <= config.mem_size

C1_Witness ==
    /\ last_call = "remember"
    /\ Len(added) > config.mem_size + 1
    /\ Len(memory) = config.mem_size

\* C2: once more than mem_size transitions t_0 .. t_(n-1) were remembered, the
\* memory holds exactly the last mem_size of them, t_(n-mem_size) .. t_(n-1),
\* in order: every remember on a full memory drops the oldest and no other.
C2_FifoEviction ==
    LET n == Len(added)
        c == config.mem_size
    IN  n > c => memory = SubSeq(added, n - c + 1, n)

C2_Witness ==
    /\ last_call = "remember"
    /\ config.mem_size = 2
    /\ Len(added) = config.mem_size + 2
    /\ memory[1].id = 2
    /\ memory[2].id = 3

\* C3: one target_train sets every parameter of the target network to
\* tau * live + (1 - tau) * target, read before the update, and leaves the live
\* parameters alone; tau = 1 copies live, tau = 0 changes nothing.
C3_SoftUpdate ==
    [][nsync' = nsync + 1 =>
        /\ DOMAIN target_model' = ParamNames
        /\ \A n \in ParamNames :
              /\ DOMAIN target_model'[n] = DOMAIN target_model[n]
              /\ \A i \in DOMAIN target_model[n] :
                    target_model'[n][i] =
                        RAdd(RMul(config.tau, model[n][i]),
                             RMul(RSub(R(1), config.tau), target_model[n][i]))
        /\ model' = model
        /\ (config.tau = R(1) => target_model' = model)
        /\ (config.tau = R(0) => target_model' = target_model)]_vars

C3_Witness ==
    /\ last_call = "target_train"
    /\ nsync = 2
    /\ config.tau = <<1, 2>>
    /\ target_model["fc4.bias"][1] = <<3, 4>>
    /\ target_model # model

\* C4 as claimed: replay on a memory that holds no transition fails with an
\* EmptyBufferError.
C4_EmptyReplayRaises ==
    (last_call = "replay" /\ added = <<>>) => replay_outcome = "EmptyBufferError"

\* C4 as amended: replay on a memory that holds fewer than memory_batch
\* transitions, an empty one included, returns normally: no batch is drawn and
\* the memory and both networks stay as they were.
C4_ShortReplayReturns ==
    [][(last_call' = "replay" /\ Len(memory) < config.memory_batch) =>
        /\ replay_outcome' = "skipped"
        /\ samples' = <<>>
        /\ targets' = <<>>
        /\ memory' = memory
        /\ model' = model
        /\ target_model' = target_model]_vars

C4_Witness ==
    /\ last_call = "replay"
    /\ added = <<>>
    /\ config.memory_batch = 2
    /\ replay_outcome = "skipped"

\* C5: until the first target_train, every parameter of the target network
\* equals the live network's.
C5_TargetStartsAsCopy == nsync = 0 => target_model = model

\* C8 as claimed: every sequence of memory_batch stored transitions, repeats of
\* one stored transition included, is a possible batch.
C8_WithReplacement ==
    Len(memory) >= config.memory_batch =>
        random_choices(memory, config.memory_batch)
            \subseteq random_sample(memory, config.memory_batch)

\* the sequences of k items of pool taken at pairwise different positions
DistinctPicks(pool, k) ==
    {[i \in 1 .. k |-> pool[f[i]]] :
        f \in {g \in [1 .. k -> 1 .. Len(pool)] :
                \A i, j \in 1 .. k : i # j => g[i] # g[j]}}

\* C8 as amended: a batch is memory_batch stored transitions taken at pairwise
\* different positions of the memory (no replacement); every such sequence is
\* a possible batch, and every row of a batch is stored in the memory.
C8_WithoutReplacement ==
    /\ Len(memory) >= config.memory_batch =>
          random_sample(memory, config.memory_batch)
              = DistinctPicks(memory, config.memory_batch)
    /\ (last_call = "replay" /\ replay_outcome = "trained") =>
          /\ Len(samples) = config.memory_batch
          /\ \A i \in 1 .. Len(samples) : samples[i] \in Range(memory)
          /\ \A i, j \in 1 .. Len(samples) :
                i # j => samples[i].id # samples[j].id

C8_Witness ==
    /\ last_call = "replay"
    /\ replay_outcome = "trained"
    /\ Len(memory) = 2
    /\ samples = <<memory[2], memory[1]>>

\* the target the claim describes: the bootstrap reads the stored new_state
expected_target(tm, sample, gamma) ==
    [a \in Actions |->
        IF a # sample.action THEN forward(tm, sample.state)[a]
        ELSE IF sample.done THEN R(sample.reward)
        ELSE RAdd(R(sample.reward),
                  RMul(gamma, MaxOf(forward(tm, sample.new_state))))]

\* C9: the regression target of a sample is the target network's output on
\* its state, except at the taken action: reward if done, else
\* reward + gamma * max of the target network's output on its new_state.
C9_BellmanTarget ==
    (last_call = "replay" /\ replay_outcome = "trained") =>
        \A i \in 1 .. Len(samples) :
            targets[i] = expected_target(target_model, samples[i], config.gamma)

EpsilonPre ==
    /\ RLess(R(0), config.epsilon_decay)
    /\ RLeq(config.epsilon_decay, R(1))
    /\ RLeq(config.epsilon_min, config.epsilon)

\* C10: with 0 < epsilon_decay <= 1 and epsilon_0 >= epsilon_min, after k >= 1
\* act calls epsilon = max(epsilon_min, epsilon_0 * epsilon_decay^k); epsilon
\* never grows, never falls below epsilon_min, and stays at epsilon_min once
\* there.
C10_EpsilonBound ==
    /\ [](EpsilonPre /\ nacts >= 1 =>
            epsilon = RMax(config.epsilon_min,
                           RMul(config.epsilon, RPow(config.epsilon_decay, nacts))))
    /\ [][EpsilonPre =>
            /\ RLeq(epsilon', epsilon)
            /\ RLeq(config.epsilon_min, epsilon')
            /\ (epsilon = config.epsilon_min => epsilon' = config.epsilon_min)]_vars

C10_Witness ==
    /\ EpsilonPre
    /\ nacts = 3
    /\ RLess(config.epsilon_min, config.epsilon)
    /\ epsilon = config.epsilon_min
    /\ RLess(RMul(config.epsilon, RPow(config.epsilon_decay, nacts)),
             config.epsilon_min)

(***************************************************************************)
(* Properties of Engine.train.                                             *)
(***************************************************************************)
\* C6 as claimed: whenever policy.train has sampled, the buffer held at least
\* batch_size transitions.
C6_TrainsOnFullBatch ==
    train_size # -1 => train_size >= engine_config.batch_size

\* C6 as amended: policy.train is called after the add of its own iteration,
\* on a buffer of min(t + 1, capacity) transitions, which is at least
\* min(start_timesteps + 1, capacity) and never 0; that is at least batch_size
\* when batch_size <= min(start_timesteps + 1, capacity).
C6_TrainsOnWarmBuffer ==
    /\ train_size # -1 =>
          /\ train_size >= 1
          /\ train_size >= Min(engine_config.start_timesteps + 1,
                               engine_config.capacity)
          /\ engine_config.batch_size
                <= Min(engine_config.start_timesteps + 1, engine_config.capacity)
             => train_size >= engine_config.batch_size
    /\ (pc = "episode" /\ t >= engine_config.start_timesteps) =>
          train_size = Min(t + 1, engine_config.capacity)

C6_Witness ==
    /\ pc = "episode"
    /\ t = engine_config.start_timesteps
    /\ engine_config.start_timesteps = 1
    /\ engine_config.batch_size = 2
    /\ engine_config.capacity = 2
    /\ train_size = 2

\* C7: the stored done flag is 1 only if the environment reported done on a
\* step whose episode step count is below the episode limit; the step that
\* reaches the limit is stored with done = 0, and the episode still ends:
\* the environment is reset, episode_timesteps and episode_reward become 0 and
\* episode_num grows by exactly 1.
C7_TruncationIsNotTermination ==
    /\ [](pc = "train" =>
            LET stored == ReplayBuffer_newest(replay_buffer)
                limit == engine_config.max_episode_steps
            IN  /\ stored.done \in {0, 1}
                /\ stored.done = 1 => (done /\ episode_timesteps < limit)
                /\ episode_timesteps >= limit => (stored.done = 0 /\ done))
    /\ [][(pc = "episode" /\ episode_timesteps >= engine_config.max_episode_steps) =>
            /\ env_elapsed' = 0
            /\ state' = 0
            /\ ~done'
            /\ episode_timesteps' = 0
            /\ episode_reward' = 0
            /\ episode_num' = episode_num + 1]_vars

C7_Witness ==
    /\ pc = "evaluate"
    /\ engine_config.max_episode_steps = 2
    /\ engine_config.capacity = 2
    /\ episode_num = 1
    /\ episode_timesteps = 0
    /\ t = 1
    /\ ReplayBuffer_newest(replay_buffer).done = 0
    /\ ReplayBuffer_newest(replay_buffer).next_state = 2
    /\ ReplayBuffer_newest(replay_buffer).reward = 1

====
